---- MODULE Spec2Model ----
(***************************************************************************)
(* junos_exporter: the RpcClient (package rpc), which turns CLI commands   *)
(* and their XML replies into domain records, and the InterfaceCollector   *)
(* (package interfaces), which turns interface records into samples.       *)
(*                                                                         *)
(* Four specifications:                                                    *)
(*   Spec        one RpcClient built without an alarm filter, running any  *)
(*               of its nine domain operations, one call at a time;        *)
(*   SpecAlarm   NewClient with any of the filter strings (a pattern that  *)
(*               does not compile ends in the panic of MustCompile), and   *)
(*               the client it returns running AlarmCounter;               *)
(*   SpecCollect InterfaceCollector.Collect invocations running            *)
(*               concurrently on the same label-value prefix slice, the    *)
(*               stores of append into the shared array word by word;      *)
(*   SpecCollectSeq  the same invocations run one after the other.         *)
(*                                                                         *)
(* The alarm filter is a regular expression (package regexp) and the dBm   *)
(* readings are float64 texts (strconv.ParseFloat); both are computed as   *)
(* the Go library computes them.  The other numbers of the replies are     *)
(* small integers: float64(n) is exact there.                              *)
(***************************************************************************)
EXTENDS Integers, Sequences, FiniteSets, TLC

VARIABLES
    alarmFilter,  \* RpcClient.alarmFilter: nil, or the compiled pattern
    pc,           \* where the domain call stands: idle, send, wait, done;
                  \* panic when NewClient returned no client
    op,           \* the domain operation of the call
    cmdIdx,       \* AlarmCounter: index into cmds of the current command
    sent,         \* the command texts handed to conn.RunCommand in this call
    inflight,     \* commands handed to the channel and not yet answered
    decoded,      \* the envelopes xml.Unmarshal filled in this call, in order
    red,          \* AlarmCounter's local red
    yellow,       \* AlarmCounter's local yellow
    result,       \* the value the call returned (NilValue: nil)
    err,          \* the error the call returned ("nil": none)
    backing,      \* the array behind the caller's labelValues slice
    cstate,       \* per Collect invocation: its locals and position
    out           \* per Collect invocation: descriptor and value of the samples sent

rpcVars == <<alarmFilter, pc, op, cmdIdx, sent, inflight, decoded, red, yellow, result, err>>
colVars == <<backing, cstate, out>>
vars == <<alarmFilter, pc, op, cmdIdx, sent, inflight, decoded, red, yellow, result, err,
          backing, cstate, out>>

Nil == "nil"

\* a value a call returns or a pointer field holds: nil, or a value
NilValue == [isNil |-> TRUE]
Some(v) == [isNil |-> FALSE, v |-> v]

(***************************************************************************)
(* Bounds of the replies.                                                  *)
(***************************************************************************)
MaxAlarms == 2
MaxPhy == 2
MaxPeers == 2
MaxAreas == 2
MaxAdj == 2
MaxTables == 2
MaxProtos == 2
MaxItems == 3
MaxDiag == 2
MaxStats == 2
MaxRacing == 1

SeqUpTo(S, n) == UNION {[1..k -> S] : k \in 0..n}

\* Op applied to the value v: a local name for a value computed once
With(v, Op(_)) == Op(v)

(***************************************************************************)
(* Strings.  A character is a string of length one; texts are ASCII.       *)
(***************************************************************************)
Ch(s, i) == SubSeq(s, i, i)

\* the printable ASCII characters in code order: 32 (space) to 95, and 97
\* to 126 (the grave accent, 96, cannot be written in a string here)
PrintableLow == " !\"#$%&'()*+,-./0123456789:;<=>?@ABCDEFGHIJKLMNOPQRSTUVWXYZ[\\]^_"
PrintableHigh == "abcdefghijklmnopqrstuvwxyz{|}~"

\* the ASCII characters of the texts and their code points
AsciiChars ==
    {"\t", "\n", "\f", "\r"}
    \cup {Ch(PrintableLow, k) : k \in 1..Len(PrintableLow)}
    \cup {Ch(PrintableHigh, k) : k \in 1..Len(PrintableHigh)}
CodePoints ==
    [ch \in AsciiChars |->
        CASE ch = "\t" -> 9
          [] ch = "\n" -> 10
          [] ch = "\f" -> 12
          [] ch = "\r" -> 13
          [] \E k \in 1..Len(PrintableLow) : Ch(PrintableLow, k) = ch ->
                31 + (CHOOSE k \in 1..Len(PrintableLow) : Ch(PrintableLow, k) = ch)
          [] \E k \in 1..Len(PrintableHigh) : Ch(PrintableHigh, k) = ch ->
                96 + (CHOOSE k \in 1..Len(PrintableHigh) : Ch(PrintableHigh, k) = ch)]
    @@ <<>>

\* the code point of an ASCII character
Code(ch) == CodePoints[ch]

InCodes(ch, lo, hi) == Code(ch) >= lo /\ Code(ch) <= hi
IsDigit(ch) == InCodes(ch, 48, 57)
IsUpper(ch) == InCodes(ch, 65, 90)
IsLower(ch) == InCodes(ch, 97, 122)
IsWordChar(ch) == IsDigit(ch) \/ IsUpper(ch) \/ IsLower(ch) \/ ch = "_"
DigitVal(ch) == Code(ch) - 48

\* the other case of a letter; any other character is its own
SwapCase(ch) ==
    IF IsUpper(ch) THEN Ch(PrintableHigh, Code(ch) - 64)
    ELSE IF IsLower(ch) THEN Ch(PrintableLow, Code(ch) - 63)
    ELSE ch

(***************************************************************************)
(* regexp (RE2 syntax, Perl flags): the parse of a pattern into a tree.    *)
(* A parse ends in a tree (why = ""), in a syntax error (why = "syntax"),  *)
(* or on a construct this development does not cover                      *)
(* (why = "unsupported"): named and Unicode classes, octal and hex         *)
(* escapes, \Q..\E, \C, \a, \v, named groups, and a repetition written     *)
(* directly after a flag group.                                            *)
(***************************************************************************)
Eps == [t |-> "eps"]
Lit(c, fold) == [t |-> "lit", c |-> c, fold |-> fold]
AnyChar(nl) == [t |-> "any", nl |-> nl]
Cls(neg, rs, fold) == [t |-> "cls", neg |-> neg, rs |-> rs, fold |-> fold]
Asrt(k) == [t |-> "asrt", k |-> k]
Cat(a, b) == [t |-> "cat", a |-> a, b |-> b]
Alt(a, b) == [t |-> "alt", a |-> a, b |-> b]
Rep(a, min, max, counted) ==
    [t |-> "rep", a |-> a, min |-> min, max |-> max, counted |-> counted]

Ok(node, pos, fl) == [why |-> "", node |-> node, pos |-> pos, fl |-> fl, isFlag |-> FALSE]
OkFlag(pos, fl) == [why |-> "", node |-> Eps, pos |-> pos, fl |-> fl, isFlag |-> TRUE]
Bad == [why |-> "syntax"]
Unsupported == [why |-> "unsupported"]

\* the flags a parse starts with: case-sensitive, one line, . excludes \n
PerlFlags == [i |-> FALSE, m |-> FALSE, s |-> FALSE]

\* \d \s \w and their negations as code ranges
PerlClass(c) ==
    CASE c = "d" -> <<<<48, 57>>>>
      [] c = "s" -> <<<<9, 10>>, <<12, 13>>, <<32, 32>>>>
      [] c = "w" -> <<<<48, 57>>, <<65, 90>>, <<95, 95>>, <<97, 122>>>>
      [] c = "D" -> <<<<0, 47>>, <<58, 1114111>>>>
      [] c = "S" -> <<<<0, 8>>, <<11, 11>>, <<14, 31>>, <<33, 1114111>>>>
      [] c = "W" -> <<<<0, 47>>, <<58, 64>>, <<91, 94>>, <<96, 96>>, <<123, 1114111>>>>

\* parser.parseInt: a run of digits without a leading zero; a value above
\* the repeat limit is reported as 1001
RECURSIVE DigitsEnd(_, _)
DigitsEnd(p, i) ==
    IF i <= Len(p) /\ IsDigit(Ch(p, i)) THEN DigitsEnd(p, i + 1) ELSE i
RECURSIVE NumVal(_, _, _, _)
NumVal(p, i, j, acc) ==
    IF i >= j THEN acc
    ELSE IF acc * 10 + DigitVal(Ch(p, i)) > 1000 THEN 1001
    ELSE NumVal(p, i + 1, j, acc * 10 + DigitVal(Ch(p, i)))
ParseInt(p, i) ==
    IF i > Len(p) \/ ~IsDigit(Ch(p, i)) THEN [ok |-> FALSE]
    ELSE IF i + 1 <= Len(p) /\ Ch(p, i) = "0" /\ IsDigit(Ch(p, i + 1)) THEN [ok |-> FALSE]
    ELSE [ok |-> TRUE, n |-> NumVal(p, i, DigitsEnd(p, i), 0), pos |-> DigitsEnd(p, i)]

\* parser.parseRepeat at the "{" of p[i]: {n}, {n,} or {n,m}
ParseRepeat(p, i) ==
    With(ParseInt(p, i + 1), LAMBDA lo :
        IF ~lo.ok \/ lo.pos > Len(p) THEN [ok |-> FALSE]
        ELSE IF Ch(p, lo.pos) = "}"
        THEN [ok |-> TRUE, min |-> lo.n, max |-> lo.n, pos |-> lo.pos + 1]
        ELSE IF Ch(p, lo.pos) # "," \/ lo.pos + 1 > Len(p) THEN [ok |-> FALSE]
        ELSE IF Ch(p, lo.pos + 1) = "}"
        THEN [ok |-> TRUE, min |-> lo.n, max |-> -1, pos |-> lo.pos + 2]
        ELSE With(ParseInt(p, lo.pos + 1), LAMBDA hi :
                IF ~hi.ok \/ hi.pos > Len(p) \/ Ch(p, hi.pos) # "}" THEN [ok |-> FALSE]
                ELSE [ok |-> TRUE, min |-> lo.n, max |-> hi.n, pos |-> hi.pos + 1]))

\* the repetition operator written at p[i], with its non-greedy mark:
\* none, a bad size, or the bounds (max -1: unbounded)
Lazy(p, pos) == IF pos <= Len(p) /\ Ch(p, pos) = "?" THEN pos + 1 ELSE pos
RepeatOp(p, i) ==
    IF i > Len(p) THEN [kind |-> "none"]
    ELSE IF Ch(p, i) = "*"
    THEN [kind |-> "rep", min |-> 0, max |-> -1, counted |-> FALSE, pos |-> Lazy(p, i + 1)]
    ELSE IF Ch(p, i) = "+"
    THEN [kind |-> "rep", min |-> 1, max |-> -1, counted |-> FALSE, pos |-> Lazy(p, i + 1)]
    ELSE IF Ch(p, i) = "?"
    THEN [kind |-> "rep", min |-> 0, max |-> 1, counted |-> FALSE, pos |-> Lazy(p, i + 1)]
    ELSE IF Ch(p, i) = "{"
    THEN With(ParseRepeat(p, i), LAMBDA r :
            IF ~r.ok THEN [kind |-> "none"]
            ELSE IF r.min > 1000 \/ r.max > 1000 \/ (r.max >= 0 /\ r.min > r.max)
            THEN [kind |-> "bad"]
            ELSE [kind |-> "rep", min |-> r.min, max |-> r.max, counted |-> TRUE,
                  pos |-> Lazy(p, r.pos)])
    ELSE [kind |-> "none"]

\* syntax.repeatIsValid: nested counted repetitions multiply to at most n
RECURSIVE RepeatIsValid(_, _)
RepeatIsValid(re, n) ==
    IF re.t = "rep"
    THEN IF ~re.counted THEN RepeatIsValid(re.a, n)
         ELSE IF re.max = 0 THEN TRUE
         ELSE LET m == IF re.max < 0 THEN re.min ELSE re.max
              IN  IF m > n THEN FALSE
                  ELSE RepeatIsValid(re.a, IF m > 0 THEN n \div m ELSE n)
    ELSE IF re.t \in {"cat", "alt"} THEN RepeatIsValid(re.a, n) /\ RepeatIsValid(re.b, n)
    ELSE TRUE

\* parser.parseEscape at the backslash of p[i]: the character it stands for
EscChar(p, i) ==
    IF i + 1 > Len(p) THEN Bad
    ELSE LET c == Ch(p, i + 1)
         IN  IF IsDigit(c)
             THEN IF c \in {"8", "9"} THEN Bad
                  ELSE IF c # "0" /\ (i + 2 > Len(p) \/ ~InCodes(Ch(p, i + 2), 48, 55)) THEN Bad
                  ELSE Unsupported
             ELSE IF c \in {"x", "a", "v"} THEN Unsupported
             ELSE IF c = "f" THEN [why |-> "", c |-> "\f", pos |-> i + 2]
             ELSE IF c = "n" THEN [why |-> "", c |-> "\n", pos |-> i + 2]
             ELSE IF c = "r" THEN [why |-> "", c |-> "\r", pos |-> i + 2]
             ELSE IF c = "t" THEN [why |-> "", c |-> "\t", pos |-> i + 2]
             ELSE IF IsUpper(c) \/ IsLower(c) THEN Bad
             ELSE [why |-> "", c |-> c, pos |-> i + 2]

\* parser.parseClassChar
ClassChar(p, i) ==
    IF i > Len(p) THEN Bad
    ELSE IF Ch(p, i) = "\\" THEN EscChar(p, i)
    ELSE [why |-> "", c |-> Ch(p, i), pos |-> i + 1]

\* parser.parseClass after the "[" and the "^": the ranges up to the "]"
RECURSIVE ClassItems(_, _, _, _)
ClassItems(p, i, first, rs) ==
    IF i > Len(p) THEN Bad
    ELSE IF Ch(p, i) = "]" /\ ~first THEN [why |-> "", rs |-> rs, pos |-> i + 1]
    ELSE IF Ch(p, i) = "[" /\ i + 1 <= Len(p) /\ Ch(p, i + 1) = ":" THEN Unsupported
    ELSE IF Ch(p, i) = "\\" /\ i + 1 <= Len(p) /\ Ch(p, i + 1) \in {"p", "P"} THEN Unsupported
    ELSE IF Ch(p, i) = "\\" /\ i + 1 <= Len(p)
                /\ Ch(p, i + 1) \in {"d", "s", "w", "D", "S", "W"}
    THEN ClassItems(p, i + 2, FALSE, rs \o PerlClass(Ch(p, i + 1)))
    ELSE With(ClassChar(p, i), LAMBDA lo :
            IF lo.why # "" THEN lo
            ELSE IF lo.pos + 1 <= Len(p) /\ Ch(p, lo.pos) = "-" /\ Ch(p, lo.pos + 1) # "]"
            THEN With(ClassChar(p, lo.pos + 1), LAMBDA hi :
                    IF hi.why # "" THEN hi
                    ELSE IF Code(hi.c) < Code(lo.c) THEN Bad
                    ELSE ClassItems(p, hi.pos, FALSE,
                                    Append(rs, <<Code(lo.c), Code(hi.c)>>)))
            ELSE ClassItems(p, lo.pos, FALSE, Append(rs, <<Code(lo.c), Code(lo.c)>>)))

\* parser.parseClass at the "[" of p[i]
ParseClass(p, i, fl) ==
    LET neg == i + 1 <= Len(p) /\ Ch(p, i + 1) = "^"
    IN  With(ClassItems(p, IF neg THEN i + 2 ELSE i + 1, TRUE, <<>>), LAMBDA items :
            IF items.why # "" THEN items
            ELSE Ok(Cls(neg, items.rs, fl.i), items.pos, fl))

\* parser.parsePerlFlags after "(?": the flags up to ":" or ")"
SetFlag(fl, c, on) ==
    IF c = "i" THEN [fl EXCEPT !.i = on]
    ELSE IF c = "m" THEN [fl EXCEPT !.m = on]
    ELSE IF c = "s" THEN [fl EXCEPT !.s = on]
    ELSE fl
RECURSIVE ParseFlags(_, _, _, _, _)
ParseFlags(p, j, fl, sign, saw) ==
    IF j > Len(p) THEN Bad
    ELSE IF Ch(p, j) \in {"i", "m", "s", "U"}
    THEN ParseFlags(p, j + 1, SetFlag(fl, Ch(p, j), sign > 0), sign, TRUE)
    ELSE IF Ch(p, j) = "-"
    THEN IF sign < 0 THEN Bad ELSE ParseFlags(p, j + 1, fl, -1, FALSE)
    ELSE IF Ch(p, j) \in {":", ")"}
    THEN IF sign < 0 /\ ~saw THEN Bad
         ELSE [why |-> "", group |-> Ch(p, j) = ":", pos |-> j + 1, fl |-> fl]
    ELSE Bad

RECURSIVE ParseAlt(_, _, _)
RECURSIVE ParseConcat(_, _, _)
RECURSIVE ParsePiece(_, _, _)
RECURSIVE ParseAtom(_, _, _)

\* a backslash outside a class
ParseEscape(p, i, fl) ==
    IF i + 1 > Len(p) THEN Bad
    ELSE LET c == Ch(p, i + 1)
         IN  IF c = "A" THEN Ok(Asrt("bot"), i + 2, fl)
             ELSE IF c = "z" THEN Ok(Asrt("eot"), i + 2, fl)
             ELSE IF c = "b" THEN Ok(Asrt("wordb"), i + 2, fl)
             ELSE IF c = "B" THEN Ok(Asrt("nwordb"), i + 2, fl)
             ELSE IF c \in {"d", "s", "w", "D", "S", "W"}
             THEN Ok(Cls(FALSE, PerlClass(c), FALSE), i + 2, fl)
             ELSE IF c \in {"Q", "p", "P", "C"} THEN Unsupported
             ELSE With(EscChar(p, i), LAMBDA e :
                     IF e.why # "" THEN e ELSE Ok(Lit(e.c, fl.i), e.pos, fl))

\* the body of a group from p[i] and its ")"; outside it the flags are fl
GroupBody(p, i, inner, fl) ==
    With(ParseAlt(p, i, inner), LAMBDA body :
        IF body.why # "" THEN body
        ELSE IF body.pos > Len(p) THEN Bad
        ELSE Ok(body.node, body.pos + 1, fl))

\* a group: "(" ... ")", "(?flags:" ... ")", or the flag setting "(?flags)"
ParseGroup(p, i, fl) ==
    IF i + 1 <= Len(p) /\ Ch(p, i + 1) = "?"
    THEN IF i + 2 <= Len(p) /\ Ch(p, i + 2) = "<" THEN Unsupported
         ELSE IF i + 4 <= Len(p) /\ Ch(p, i + 2) = "P" /\ Ch(p, i + 3) = "<" THEN Unsupported
         ELSE With(ParseFlags(p, i + 2, fl, 1, FALSE), LAMBDA f :
                 IF f.why # "" THEN f
                 ELSE IF ~f.group THEN OkFlag(f.pos, f.fl)
                 ELSE GroupBody(p, f.pos, f.fl, fl))
    ELSE GroupBody(p, i + 1, fl, fl)

\* one operand: a group, a class, an escape, an assertion or a character
ParseAtom(p, i, fl) ==
    LET c == Ch(p, i)
    IN  IF c = "(" THEN ParseGroup(p, i, fl)
        ELSE IF c = "[" THEN ParseClass(p, i, fl)
        ELSE IF c = "\\" THEN ParseEscape(p, i, fl)
        ELSE IF c = "." THEN Ok(AnyChar(fl.s), i + 1, fl)
        ELSE IF c = "^" THEN Ok(Asrt(IF fl.m THEN "bol" ELSE "bot"), i + 1, fl)
        ELSE IF c = "$" THEN Ok(Asrt(IF fl.m THEN "eol" ELSE "eot"), i + 1, fl)
        ELSE Ok(Lit(c, fl.i), i + 1, fl)

\* an operand with the repetition operator that follows it; a second
\* operator after the first is an error (parser.repeat)
ParsePiece(p, i, fl) ==
    With(ParseAtom(p, i, fl), LAMBDA a :
        IF a.why # "" THEN a
        ELSE With(RepeatOp(p, a.pos), LAMBDA r :
                IF r.kind = "none" THEN a
                ELSE IF a.isFlag THEN Unsupported
                ELSE IF r.kind = "bad" THEN Bad
                ELSE IF RepeatOp(p, r.pos).kind # "none" THEN Bad
                ELSE With(Rep(a.node, r.min, r.max, r.counted), LAMBDA node :
                        IF r.counted /\ (r.min >= 2 \/ r.max >= 2)
                              /\ ~RepeatIsValid(node, 1000)
                        THEN Bad
                        ELSE Ok(node, r.pos, a.fl))))

\* a concatenation, up to "|", ")" or the end; a repetition operator with
\* nothing before it is an error
ParseConcat(p, i, fl) ==
    IF i > Len(p) \/ Ch(p, i) \in {"|", ")"} THEN Ok(Eps, i, fl)
    ELSE IF RepeatOp(p, i).kind # "none" THEN Bad
    ELSE With(ParsePiece(p, i, fl), LAMBDA a :
            IF a.why # "" THEN a
            ELSE With(ParseConcat(p, a.pos, a.fl), LAMBDA rest :
                    IF rest.why # "" THEN rest
                    ELSE Ok(Cat(a.node, rest.node), rest.pos, rest.fl)))

\* an alternation, up to ")" or the end
ParseAlt(p, i, fl) ==
    With(ParseConcat(p, i, fl), LAMBDA a :
        IF a.why # "" THEN a
        ELSE IF a.pos <= Len(p) /\ Ch(p, a.pos) = "|"
        THEN With(ParseAlt(p, a.pos + 1, a.fl), LAMBDA rest :
                IF rest.why # "" THEN rest
                ELSE Ok(Alt(a.node, rest.node), rest.pos, rest.fl))
        ELSE a)

\* regexp.Compile: the tree of the whole pattern; a ")" left over is an error
Compile(p) ==
    With(ParseAlt(p, 1, PerlFlags), LAMBDA r :
        IF r.why # "" THEN r
        ELSE IF r.pos <= Len(p) THEN Bad
        ELSE r)

(***************************************************************************)
(* regexp: matching.  Ends(re, s, i) is the set of positions at which a    *)
(* match of re that begins at position i of s can end.                     *)
(***************************************************************************)
ClsHas(re, ch) ==
    LET in(c) == \E k \in 1..Len(re.rs) : InCodes(c, re.rs[k][1], re.rs[k][2])
    IN  (in(ch) \/ (re.fold /\ in(SwapCase(ch)))) # re.neg

WordAt(s, j) == j >= 1 /\ j <= Len(s) /\ IsWordChar(Ch(s, j))
Holds(k, s, i) ==
    CASE k = "bot" -> i = 1
      [] k = "eot" -> i = Len(s) + 1
      [] k = "bol" -> i = 1 \/ Ch(s, i - 1) = "\n"
      [] k = "eol" -> i = Len(s) + 1 \/ Ch(s, i) = "\n"
      [] k = "wordb" -> WordAt(s, i - 1) # WordAt(s, i)
      [] k = "nwordb" -> WordAt(s, i - 1) = WordAt(s, i)

RECURSIVE Ends(_, _, _)
RECURSIVE Closure(_, _, _, _)
RECURSIVE Times(_, _, _, _)
RECURSIVE AtMost(_, _, _, _)
Ends(re, s, i) ==
    CASE re.t = "eps" -> {i}
      [] re.t = "lit" ->
            IF i <= Len(s) /\ (Ch(s, i) = re.c \/ (re.fold /\ SwapCase(Ch(s, i)) = re.c))
            THEN {i + 1} ELSE {}
      [] re.t = "any" ->
            IF i <= Len(s) /\ (re.nl \/ Ch(s, i) # "\n") THEN {i + 1} ELSE {}
      [] re.t = "cls" -> IF i <= Len(s) /\ ClsHas(re, Ch(s, i)) THEN {i + 1} ELSE {}
      [] re.t = "asrt" -> IF Holds(re.k, s, i) THEN {i} ELSE {}
      [] re.t = "cat" -> UNION {Ends(re.b, s, j) : j \in Ends(re.a, s, i)}
      [] re.t = "alt" -> Ends(re.a, s, i) \cup Ends(re.b, s, i)
      [] re.t = "rep" ->
            With(Times(re.a, s, {i}, re.min), LAMBDA least :
                IF re.max < 0 THEN Closure(re.a, s, least, least)
                ELSE AtMost(re.a, s, least, re.max - re.min))
\* exactly n matches of re one after the other, from any position of from
Times(re, s, from, n) ==
    With(UNION {Ends(re, s, j) : j \in from}, LAMBDA next :
        IF n = 0 \/ next = from THEN from ELSE Times(re, s, next, n - 1))
\* up to n more matches
AtMost(re, s, from, n) ==
    With(UNION {Ends(re, s, j) : j \in from}, LAMBDA next :
        IF n = 0 \/ next \subseteq from THEN from
        ELSE from \cup AtMost(re, s, next, n - 1))
\* any number of further matches
Closure(re, s, frontier, seen) ==
    With(UNION {Ends(re, s, j) : j \in frontier} \ seen, LAMBDA next :
        IF next = {} THEN seen ELSE Closure(re, s, next, seen \cup next))

\* regexp.Regexp.MatchString: some substring of s matches re
MatchString(re, s) == \E i \in 1..(Len(s) + 1) : Ends(re, s, i) # {}

(***************************************************************************)
(* Natural numbers of any size, for the arithmetic of strconv: a sequence  *)
(* of limbs in base 10000, least significant first, without leading zero   *)
(* limbs (zero is the empty sequence).                                     *)
(***************************************************************************)
Limb == 10000

\* limbs lo..hi of a times a small k, plus the carry c that comes in: the
\* limbs of the product and the carry that goes out
RECURSIVE MulLimbs(_, _, _, _, _)
MulLimbs(a, k, c, lo, hi) ==
    IF lo = hi
    THEN [limbs |-> <<(a[lo] * k + c) % Limb>>, carry |-> (a[lo] * k + c) \div Limb]
    ELSE With(MulLimbs(a, k, c, lo, (lo + hi) \div 2), LAMBDA low :
            With(MulLimbs(a, k, low.carry, (lo + hi) \div 2 + 1, hi), LAMBDA high :
                [limbs |-> low.limbs \o high.limbs, carry |-> high.carry]))
\* a * k + c, for k and c below Limb (the carry out is a limb then)
BigMulAdd(a, k, c) ==
    IF a = <<>> THEN (IF c = 0 THEN <<>> ELSE <<c>>)
    ELSE With(MulLimbs(a, k, c, 1, Len(a)), LAMBDA m :
            IF m.carry = 0 THEN m.limbs ELSE Append(m.limbs, m.carry))

\* limbs hi down to lo of a divided by a small k, r the remainder that
\* comes in from above: the limbs of the quotient, most significant first,
\* and the remainder left
RECURSIVE DivLimbs(_, _, _, _, _)
DivLimbs(a, k, r, lo, hi) ==
    IF lo = hi
    THEN [limbs |-> <<(r * Limb + a[lo]) \div k>>, r |-> (r * Limb + a[lo]) % k]
    ELSE With(DivLimbs(a, k, r, (lo + hi) \div 2 + 1, hi), LAMBDA high :
            With(DivLimbs(a, k, high.r, lo, (lo + hi) \div 2), LAMBDA low :
                [limbs |-> high.limbs \o low.limbs, r |-> low.r]))
\* the quotient and the remainder of a by k, for k below Limb (the
\* quotient has one limb less than a at most then)
BigDivMod(a, k) ==
    IF a = <<>> THEN [q |-> <<>>, r |-> 0]
    ELSE With(DivLimbs(a, k, 0, 1, Len(a)), LAMBDA d :
            With(IF d.limbs[1] = 0 THEN Len(a) - 1 ELSE Len(a), LAMBDA n :
                [q |-> [i \in 1..n |-> d.limbs[Len(a) + 1 - i]], r |-> d.r]))

BigIsOdd(a) == a # <<>> /\ a[1] % 2 = 1

\* b^n, by squaring
RECURSIVE Pow(_, _)
Pow(b, n) ==
    IF n = 0 THEN 1
    ELSE IF n % 2 = 0 THEN Pow(b * b, n \div 2)
    ELSE b * Pow(b * b, n \div 2)

\* a * b^n, by halves of n down to b^step (below Limb)
RECURSIVE BigMulPow(_, _, _, _)
RECURSIVE MulPowOn(_, _, _, _)
BigMulPow(a, b, step, n) ==
    IF n = 0 THEN a
    ELSE IF n <= step THEN BigMulAdd(a, Pow(b, n), 0)
    ELSE MulPowOn(BigMulPow(a, b, step, n \div 2), b, step, n - n \div 2)
MulPowOn(x, b, step, n) == IF x = <<>> THEN x ELSE BigMulPow(x, b, step, n)

\* d.q divided by a small k, and whether anything was left over so far
DivStep(d, k) ==
    With(BigDivMod(d.q, k), LAMBDA e : [q |-> e.q, sticky |-> d.sticky \/ e.r # 0])
\* d.q divided by b^n, by halves of n down to b^step (below Limb)
RECURSIVE DivPow(_, _, _, _)
RECURSIVE DivPowOn(_, _, _, _)
DivPow(d, b, step, n) ==
    IF n = 0 THEN d
    ELSE IF n <= step THEN DivStep(d, Pow(b, n))
    ELSE DivPowOn(DivPow(d, b, step, n \div 2), b, step, n - n \div 2)
DivPowOn(x, b, step, n) == IF x.q = <<>> THEN x ELSE DivPow(x, b, step, n)
\* the quotient of a by b^n, and whether anything was left over
BigDivPow(a, b, step, n, sticky) == DivPow([q |-> a, sticky |-> sticky], b, step, n)

\* the number of bits of a: a number of L limbs is 10^(4(L-1)) or more, so
\* it has more than 13(L-1) bits
SmallBitLen(n) == CHOOSE j \in 0..14 : Pow(2, j) > n /\ (j = 0 \/ Pow(2, j - 1) <= n)
RECURSIVE BitLenLoop(_, _)
BitLenLoop(a, bits) ==
    IF Len(a) >= 2
    THEN BitLenLoop(BigDivPow(a, 2, 13, 13 * (Len(a) - 1), FALSE).q,
                    bits + 13 * (Len(a) - 1))
    ELSE IF a = <<>> THEN bits
    ELSE bits + SmallBitLen(a[1])
BitLen(a) == BitLenLoop(a, 0)

\* the decimal text of a
DigitChars == "0123456789"
LimbText(n, padded) ==
    LET d(k) == Ch(DigitChars, ((n \div Pow(10, k)) % 10) + 1)
    IN  IF padded \/ n >= 1000 THEN d(3) \o d(2) \o d(1) \o d(0)
        ELSE IF n >= 100 THEN d(2) \o d(1) \o d(0)
        ELSE IF n >= 10 THEN d(1) \o d(0)
        ELSE d(0)
RECURSIVE BigText(_, _)
BigText(a, i) ==
    IF a = <<>> THEN "0"
    ELSE IF i = 0 THEN ""
    ELSE LimbText(a[i], i < Len(a)) \o BigText(a, i - 1)

(***************************************************************************)
(* float64 values: a finite value is (-1)^neg * mant * 2^exp with mant the *)
(* decimal text of an odd integer, or "0" with exp 0 for a zero.           *)
(***************************************************************************)
Finite(neg, mant, exp) == [class |-> "finite", neg |-> neg, mant |-> mant, exp |-> exp]
Zero(neg) == Finite(neg, "0", 0)
Inf(neg) == [class |-> "inf", neg |-> neg, mant |-> "0", exp |-> 0]
NaN == [class |-> "nan", neg |-> FALSE, mant |-> "0", exp |-> 0]

\* how many times two divides q, up to thirteen
TrailingZeros(q) ==
    IF BigDivMod(q, 8192).r = 0 THEN 13
    ELSE CHOOSE j \in 0..12 : /\ BigDivMod(q, 8192).r % Pow(2, j) = 0
                              /\ BigDivMod(q, 8192).r % Pow(2, j + 1) # 0
\* mant * 2^exp with the factors of two moved from mant to exp
RECURSIVE Normal(_, _, _)
Normal(neg, q, x) ==
    IF q = <<>> THEN Zero(neg)
    ELSE IF BigIsOdd(q) THEN Finite(neg, BigText(q, Len(q)), x)
    ELSE Normal(neg, BigDivMod(q, Pow(2, TrailingZeros(q))).q, x + TrailingZeros(q))

\* the float64 nearest to (n + d) * 2^b, where 0 <= d < 1 and sticky tells
\* d > 0 (n has 55 bits or more then); ties go to the even mantissa; a
\* value beyond the largest float64 is an infinity with ErrRange
RoundFloat(neg, n, b, sticky) ==
    With(BitLen(n), LAMBDA len :
    With(IF b + len - 53 > -1074 THEN b + len - 53 ELSE -1074, LAMBDA top :
        IF n = <<>> THEN [f |-> Zero(neg), err |-> "nil"]
        ELSE IF b + len > 1024 THEN [f |-> Inf(neg), err |-> "ErrRange"]
        ELSE IF top - b <= 0 THEN [f |-> Normal(neg, n, b), err |-> "nil"]
        ELSE IF top - b > len + 1 THEN [f |-> Zero(neg), err |-> "nil"]
        ELSE With(BigDivPow(n, 2, 13, top - b - 1, sticky), LAMBDA low :
             With(BigDivMod(low.q, 2), LAMBDA half :
             With(IF half.r = 1 /\ (low.sticky \/ BigIsOdd(half.q))
                  THEN BigMulAdd(half.q, 1, 1) ELSE half.q, LAMBDA q :
                IF BitLen(q) + top > 1024 THEN [f |-> Inf(neg), err |-> "ErrRange"]
                ELSE [f |-> Normal(neg, q, top), err |-> "nil"])))))

\* the float64 of n * 10^e
DecimalFloat(neg, n, e) ==
    IF e >= 0 THEN RoundFloat(neg, BigMulPow(n, 5, 5, e), e, FALSE)
    ELSE With(BitLen(n), LAMBDA len :
         With(IF 3 * (-e) + 56 > len THEN 3 * (-e) + 56 - len ELSE 0, LAMBDA k :
         With(BigDivPow(BigMulPow(n, 2, 13, k), 5, 5, -e, FALSE), LAMBDA d :
            RoundFloat(neg, d.q, e - k, d.sticky))))

(***************************************************************************)
(* strconv.ParseFloat(s, 64).                                              *)
(***************************************************************************)
Lower(ch) == IF IsUpper(ch) THEN SwapCase(ch) ELSE ch

RECURSIVE CommonPrefixLenIgnoreCase(_, _)
CommonPrefixLenIgnoreCase(s, prefix) ==
    IF s = "" \/ prefix = "" \/ Lower(Ch(s, 1)) # Ch(prefix, 1) THEN 0
    ELSE 1 + CommonPrefixLenIgnoreCase(SubSeq(s, 2, Len(s)), SubSeq(prefix, 2, Len(prefix)))

\* strconv.special: a signed "inf" or "infinity", or "nan", at the start
\* of s, and the number of characters it takes
special(s) ==
    IF s = "" THEN [ok |-> FALSE]
    ELSE LET signed == Ch(s, 1) \in {"+", "-"}
             body == IF signed THEN SubSeq(s, 2, Len(s)) ELSE s
             nsign == IF signed THEN 1 ELSE 0
         IN  IF signed \/ Ch(s, 1) \in {"i", "I"}
             THEN With(CommonPrefixLenIgnoreCase(body, "infinity"), LAMBDA n0 :
                  With(IF 3 < n0 /\ n0 < 8 THEN 3 ELSE n0, LAMBDA n :
                     IF n = 3 \/ n = 8
                     THEN [ok |-> TRUE, f |-> Inf(Ch(s, 1) = "-"), n |-> nsign + n]
                     ELSE [ok |-> FALSE]))
             ELSE IF Ch(s, 1) \in {"n", "N"} /\ CommonPrefixLenIgnoreCase(s, "nan") = 3
             THEN [ok |-> TRUE, f |-> NaN, n |-> 3]
             ELSE [ok |-> FALSE]

\* strconv.underscoreOK: every underscore stands between two digits, or
\* between a base prefix and a digit
RECURSIVE UnderscoreScan(_, _, _, _)
UnderscoreScan(s, i, saw, hex) ==
    IF i > Len(s) THEN saw # "_"
    ELSE IF IsDigit(Ch(s, i)) \/ (hex /\ InCodes(Lower(Ch(s, i)), 97, 102))
    THEN UnderscoreScan(s, i + 1, "0", hex)
    ELSE IF Ch(s, i) = "_"
    THEN IF saw # "0" THEN FALSE ELSE UnderscoreScan(s, i + 1, "_", hex)
    ELSE IF saw = "_" THEN FALSE
    ELSE UnderscoreScan(s, i + 1, "!", hex)
underscoreOK(s) ==
    LET t == IF s # "" /\ Ch(s, 1) \in {"+", "-"} THEN SubSeq(s, 2, Len(s)) ELSE s
        based == Len(t) >= 2 /\ Ch(t, 1) = "0" /\ Lower(Ch(t, 2)) \in {"b", "o", "x"}
    IN  UnderscoreScan(t, IF based THEN 3 ELSE 1, IF based THEN "0" ELSE "^",
                       based /\ Lower(Ch(t, 2)) = "x")

\* readFloat's loop over the mantissa from s[i] reads underscores, one
\* point, digits and, in base 16, the letters a to f: whether it reads c
IsMantissaChar(c, hex) ==
    c \in {"_", "."} \/ IsDigit(c) \/ (hex /\ InCodes(Lower(c), 97, 102))
\* the loop leaves at j: the end of s, a character it does not read, or a
\* second point
MantissaStops(s, i, hex, j) ==
    \/ j > Len(s)
    \/ ~IsMantissaChar(Ch(s, j), hex)
    \/ Ch(s, j) = "." /\ \E k \in i..(j - 1) : Ch(s, k) = "."
MantissaEnd(s, i, hex) ==
    CHOOSE j \in i..(Len(s) + 1) :
        MantissaStops(s, i, hex, j) /\ \A k \in i..(j - 1) : ~MantissaStops(s, i, hex, k)
HexVal(c) == IF IsDigit(c) THEN DigitVal(c) ELSE Code(Lower(c)) - 87
\* the number of zeros the digits ds start with: the loop counts none of them
LeadingZeros(ds) ==
    CHOOSE z \in 0..Len(ds) :
        (\A k \in 1..z : ds[k] = "0") /\ (z = Len(ds) \/ ds[z + 1] # "0")
\* limb j of the decimal digits sig: four digits to a limb
DecLimb(sig, j) ==
    LET d(t) == IF Len(sig) - 4 * (j - 1) - t >= 1
                THEN DigitVal(sig[Len(sig) - 4 * (j - 1) - t]) ELSE 0
    IN  d(0) + 10 * d(1) + 100 * d(2) + 1000 * d(3)
\* the number of the first n hexadecimal digits of sig
RECURSIVE HexLimbs(_, _)
HexLimbs(sig, n) ==
    IF n = 0 THEN <<>>
    ELSE IF n >= 3
    THEN BigMulAdd(HexLimbs(sig, n - 3), 4096,
                   256 * HexVal(sig[n - 2]) + 16 * HexVal(sig[n - 1]) + HexVal(sig[n]))
    ELSE BigMulAdd(HexLimbs(sig, n - 1), 16, HexVal(sig[n]))
\* what the loop has when it leaves at j, ds the digits it read and before
\* the number of those in front of the point: the digits as a number, their
\* count nd without the leading zeros, and the place dp of the point (the
\* count when the point came, less one for each leading zero after it)
MantissaRead(s, i, hex, j, ds, z, before) ==
    [i |-> j,
     sawdot |-> \E k \in i..(j - 1) : Ch(s, k) = ".",
     sawdigits |-> ds # <<>>,
     underscores |-> \E k \in i..(j - 1) : Ch(s, k) = "_",
     nd |-> Len(ds) - z,
     dp |-> before - z,
     mantissa |-> IF hex THEN HexLimbs(SubSeq(ds, z + 1, Len(ds)), Len(ds) - z)
                  ELSE [n \in 1..((Len(ds) - z + 3) \div 4) |->
                            DecLimb(SubSeq(ds, z + 1, Len(ds)), n)]]
MantissaLoop(s, i, hex) ==
    With(MantissaEnd(s, i, hex), LAMBDA j :
    With(SelectSeq([k \in 1..(j - i) |-> Ch(s, i + k - 1)],
                   LAMBDA c : c \notin {"_", "."}), LAMBDA ds :
        MantissaRead(s, i, hex, j, ds, LeadingZeros(ds),
                     Cardinality({k \in i..(j - 1) :
                                     /\ Ch(s, k) # "_"
                                     /\ \A l \in i..k : Ch(s, l) # "."}))))

\* readFloat's loop over the digits of the exponent from s[i]
RECURSIVE ExponentLoop(_, _, _, _)
ExponentLoop(s, i, e, underscores) ==
    IF i <= Len(s) /\ Ch(s, i) = "_" THEN ExponentLoop(s, i + 1, e, TRUE)
    ELSE IF i <= Len(s) /\ IsDigit(Ch(s, i))
    THEN ExponentLoop(s, i + 1, IF e < 10000 THEN e * 10 + DigitVal(Ch(s, i)) ELSE e,
                      underscores)
    ELSE [i |-> i, e |-> e, underscores |-> underscores]

\* the result of readFloat: the number read up to place i - 1, with its
\* point at dpe; underscores have to stand where underscoreOK allows them
FloatRead(s, neg, hex, m, i, dpe, underscores) ==
    IF underscores /\ ~underscoreOK(SubSeq(s, 1, i - 1)) THEN [ok |-> FALSE]
    ELSE [ok |-> TRUE, neg |-> neg, hex |-> hex, mantissa |-> m.mantissa,
          exp |-> IF m.mantissa = <<>> THEN 0 ELSE dpe - (IF hex THEN m.nd * 4 ELSE m.nd),
          dp |-> dpe, i |-> i]

\* readFloat after the mantissa m: the optional exponent
ReadExponent(s, neg, hex, m) ==
    LET dp0 == IF m.sawdot THEN m.dp ELSE m.nd
        dp == IF hex THEN dp0 * 4 ELSE dp0
        marked == m.i <= Len(s) /\ Lower(Ch(s, m.i)) = (IF hex THEN "p" ELSE "e")
        esigned == m.i + 1 <= Len(s) /\ Ch(s, m.i + 1) \in {"+", "-"}
        e0 == IF esigned THEN m.i + 2 ELSE m.i + 1
        esign == IF m.i + 1 <= Len(s) /\ Ch(s, m.i + 1) = "-" THEN -1 ELSE 1
    IN  IF ~m.sawdigits THEN [ok |-> FALSE]
        ELSE IF marked
        THEN IF e0 > Len(s) \/ ~IsDigit(Ch(s, e0)) THEN [ok |-> FALSE]
             ELSE With(ExponentLoop(s, e0, 0, m.underscores), LAMBDA x :
                     FloatRead(s, neg, hex, m, x.i, dp + x.e * esign, x.underscores))
        ELSE IF hex THEN [ok |-> FALSE]
        ELSE FloatRead(s, neg, hex, m, m.i, dp, m.underscores)

\* strconv.readFloat: the number at the start of s is
\* (-1)^neg * mantissa * 10^exp, or * 2^exp for a hexadecimal one; i is the
\* place after it
readFloat(s) ==
    LET signed == s # "" /\ Ch(s, 1) \in {"+", "-"}
        neg == s # "" /\ Ch(s, 1) = "-"
        i0 == IF signed THEN 2 ELSE 1
        hex == i0 + 2 <= Len(s) /\ Ch(s, i0) = "0" /\ Lower(Ch(s, i0 + 1)) = "x"
    IN  IF s = "" THEN [ok |-> FALSE]
        ELSE With(MantissaLoop(s, IF hex THEN i0 + 2 ELSE i0, hex),
                  LAMBDA m : ReadExponent(s, neg, hex, m))

\* strconv.atof64
atof64(s) ==
    With(special(s), LAMBDA sp :
        IF sp.ok THEN [f |-> sp.f, n |-> sp.n, err |-> "nil"]
        ELSE With(readFloat(s), LAMBDA r :
                IF ~r.ok THEN [f |-> Zero(FALSE), n |-> 0, err |-> "ErrSyntax"]
                ELSE IF r.hex
                THEN [n |-> r.i - 1] @@ RoundFloat(r.neg, r.mantissa, r.exp, FALSE)
                ELSE IF r.mantissa = <<>> THEN [f |-> Zero(r.neg), n |-> r.i - 1, err |-> "nil"]
                ELSE IF r.dp > 310 THEN [f |-> Inf(r.neg), n |-> r.i - 1, err |-> "ErrRange"]
                ELSE IF r.dp < -330 THEN [f |-> Zero(r.neg), n |-> r.i - 1, err |-> "nil"]
                ELSE [n |-> r.i - 1] @@ DecimalFloat(r.neg, r.mantissa, r.exp)))

\* strconv.ParseFloat(s, 64): the whole of s has to be the number
ParseFloat(s) ==
    With(atof64(s), LAMBDA a :
        IF a.n # Len(s) /\ a.err # "ErrSyntax" THEN [f |-> Zero(FALSE), err |-> "ErrSyntax"]
        ELSE [f |-> a.f, err |-> a.err])

(***************************************************************************)
(* runCommandAndParse: the command text of each domain operation.          *)
(***************************************************************************)
Ops == {"AlarmCounter", "InterfaceStats", "BgpSessions", "OspfAreas", "IsisAdjancies",
        "RoutingTables", "RouteEngineStats", "EnvironmentItems", "InterfaceDiagnostics"}

\* the cmd argument(s) each operation passes to runCommandAndParse
cmds(o) ==
    CASE o = "AlarmCounter" -> <<"show system alarms", "show chassis alarms">>
      [] o = "InterfaceStats" -> <<"show interfaces statistics detail">>
      [] o = "BgpSessions" -> <<"show bgp summary">>
      [] o = "OspfAreas" -> <<"show ospf3 overview">>
      [] o = "IsisAdjancies" -> <<"show isis adjacency">>
      [] o = "RoutingTables" -> <<"show route summary">>
      [] o = "RouteEngineStats" -> <<"show chassis routing-engine">>
      [] o = "EnvironmentItems" -> <<"show chassis environment">>
      [] o = "InterfaceDiagnostics" -> <<"show interfaces diagnostics optics">>

\* fmt.Sprintf("%s | display xml", cmd)
MutDisplayXml(cmd) == cmd
DisplayXml(cmd) == cmd \o " | display xml"

(***************************************************************************)
(* NewClient and the alarm filter.                                         *)
(***************************************************************************)
\* regexp.MustCompile(str): the compiled pattern, or a panic when str does
\* not parse; "unsupported" for the syntax left out of Compile above
MustCompile(str) ==
    With(Compile(str), LAMBDA c :
        IF c.why = "" THEN [outcome |-> "ok", re |-> c.node]
        ELSE IF c.why = "syntax" THEN [outcome |-> "panic", re |-> Eps]
        ELSE [outcome |-> "unsupported", re |-> Eps])

\* the alarmFilter field: nil, or the compiled pattern
NoFilter == [isNil |-> TRUE, pattern |-> "", re |-> Eps]
Compiled(str, re) == [isNil |-> FALSE, pattern |-> str, re |-> re]

\* NewClient: the filter is compiled only when the text is not empty; the
\* panic of MustCompile leaves the caller without a client
NewClient(filterText) ==
    IF Len(filterText) > 0
    THEN With(MustCompile(filterText), LAMBDA m :
            IF m.outcome = "ok"
            THEN [outcome |-> "client", alarmFilter |-> Compiled(filterText, m.re)]
            ELSE [outcome |-> m.outcome, alarmFilter |-> NoFilter])
    ELSE [outcome |-> "client", alarmFilter |-> NoFilter]

FilterTexts == {"", "fan|psu", "^psu", "f.n", "failure$", "(?i)FAN", "("}

\* RpcClient.shouldFilterAlarm
shouldFilterAlarm(filter, alarm) ==
    IF filter.isNil THEN FALSE
    ELSE MatchString(filter.re, alarm.Description)
            \/ MatchString(filter.re, alarm.Type)

AlarmClasses == {"Major", "Minor", "Critical"}
AlarmTexts == {[Description |-> "fan failure", Type |-> "Chassis"],
               [Description |-> "psu warn", Type |-> "fan"]}
AlarmDetails == {[Class |-> c, Description |-> t.Description, Type |-> t.Type] :
                    c \in AlarmClasses, t \in AlarmTexts}
AlarmRpcs == SeqUpTo(AlarmDetails, MaxAlarms)

\* the body of AlarmCounter's inner loop for one alarm detail d
MutTallyOne(filter, d, n) ==
    IF d.Class = "Major" THEN [red |-> n.red + 1, yellow |-> n.yellow]
    ELSE IF d.Class = "Minor" THEN [red |-> n.red, yellow |-> n.yellow + 1]
    ELSE n
TallyOne(filter, d, n) ==
    IF shouldFilterAlarm(filter, d) THEN n
    ELSE IF d.Class = "Major" THEN [red |-> n.red + 1, yellow |-> n.yellow]
    ELSE IF d.Class = "Minor" THEN [red |-> n.red, yellow |-> n.yellow + 1]
    ELSE n

\* AlarmCounter's inner loop over a.Information.Details
RECURSIVE TallyDetails(_, _, _)
TallyDetails(filter, details, n) ==
    IF details = <<>> THEN n
    ELSE TallyDetails(filter, Tail(details), TallyOne(filter, Head(details), n))

(***************************************************************************)
(* The domain call as a state machine: entry, runCommandAndParse's send,   *)
(* the channel's answer, and the mapping of the decoded envelope.          *)
(***************************************************************************)
CallInit ==
    /\ pc = "idle"
    /\ op = Nil
    /\ cmdIdx = 1
    /\ sent = <<>>
    /\ inflight = 0
    /\ decoded = <<>>
    /\ red = 0
    /\ yellow = 0
    /\ result = NilValue
    /\ err = Nil

\* a domain operation is entered: its locals are fresh
Enter(o) ==
    /\ pc = "idle"
    /\ pc' = "send"
    /\ op' = o
    /\ cmdIdx' = 1
    /\ sent' = <<>>
    /\ inflight' = 0
    /\ decoded' = <<>>
    /\ red' = 0
    /\ yellow' = 0
    /\ result' = NilValue
    /\ err' = Nil
    /\ UNCHANGED <<alarmFilter, backing, cstate, out>>

\* runCommandAndParse up to c.conn.RunCommand: the command goes to the channel
RunCommand ==
    /\ pc = "send"
    /\ pc' = "wait"
    /\ sent' = Append(sent, DisplayXml(cmds(op)[cmdIdx]))
    /\ inflight' = inflight + 1
    /\ UNCHANGED <<alarmFilter, op, cmdIdx, decoded, red, yellow, result, err,
                   backing, cstate, out>>

\* RunCommand returned an error, or xml.Unmarshal did: the operation returns
\* (nil, err)
MutFail(e) ==
    /\ pc = "wait"
    /\ pc' = "done"
    /\ inflight' = inflight - 1
    /\ result' = Some([RedCount |-> red, YellowCount |-> yellow])
    /\ err' = e
    /\ UNCHANGED <<alarmFilter, op, cmdIdx, sent, decoded, red, yellow,
                   backing, cstate, out>>
Fail(e) ==
    /\ pc = "wait"
    /\ pc' = "done"
    /\ inflight' = inflight - 1
    /\ result' = NilValue
    /\ err' = e
    /\ UNCHANGED <<alarmFilter, op, cmdIdx, sent, decoded, red, yellow,
                   backing, cstate, out>>

\* the caller has taken the returned value; the client is free for another call
Finish ==
    /\ pc = "done"
    /\ pc' = "idle"
    /\ op' = Nil
    /\ cmdIdx' = 1
    /\ sent' = <<>>
    /\ decoded' = <<>>
    /\ red' = 0
    /\ yellow' = 0
    /\ result' = NilValue
    /\ err' = Nil
    /\ UNCHANGED <<alarmFilter, inflight, backing, cstate, out>>

TransportError == Fail("TransportError")
DecodeError == Fail("DecodeError")

\* operation o has its command in flight
Awaits(o) == pc = "wait" /\ op = o

\* the operation returns (r, nil) after decoding envelope x
Return(x, r) ==
    /\ pc' = "done"
    /\ inflight' = inflight - 1
    /\ decoded' = Append(decoded, x)
    /\ result' = Some(r)
    /\ err' = Nil
    /\ UNCHANGED <<alarmFilter, op, cmdIdx, sent, red, yellow, backing, cstate, out>>

\* AlarmCounter: one turn of the loop over cmds after a decoded reply
AlarmCounterReply(a) ==
    /\ pc = "wait" /\ op = "AlarmCounter"
    /\ LET n == TallyDetails(alarmFilter, a, [red |-> red, yellow |-> yellow])
       IN  /\ red' = n.red
           /\ yellow' = n.yellow
           /\ inflight' = inflight - 1
           /\ decoded' = Append(decoded, a)
           /\ IF cmdIdx < Len(cmds(op))
              THEN /\ cmdIdx' = cmdIdx + 1
                   /\ pc' = "send"
                   /\ UNCHANGED <<result, err>>
              ELSE /\ pc' = "done"
                   /\ result' = Some([RedCount |-> n.red, YellowCount |-> n.yellow])
                   /\ err' = Nil
                   /\ UNCHANGED cmdIdx
    /\ UNCHANGED <<alarmFilter, op, sent, backing, cstate, out>>

(***************************************************************************)
(* InterfaceStats.                                                         *)
(***************************************************************************)
StatusTexts == {"up", "down", "testing"}

\* two ports; Units: the logical-interface lists a reply may report under it
PhyPorts ==
    {[Name |-> "ge-0/0/0", Description |-> "uplink", MacAddress |-> "00:00:5e:00:53:01",
      InputErrors |-> [Drops |-> 1, Errors |-> 2],
      OutputErrors |-> [Drops |-> 3, Errors |-> 4],
      Stats |-> [InputBytes |-> 5, OutputBytes |-> 6],
      Units |-> {<<>>,
                 <<[Name |-> "ge-0/0/0.0", Description |-> "unit 0",
                    Stats |-> [InputBytes |-> 17, OutputBytes |-> 18]],
                   [Name |-> "ge-0/0/0.1", Description |-> "unit 1",
                    Stats |-> [InputBytes |-> 27, OutputBytes |-> 28]]>>}],
     [Name |-> "xe-0/0/1", Description |-> "", MacAddress |-> "00:00:5e:00:53:02",
      InputErrors |-> [Drops |-> 11, Errors |-> 12],
      OutputErrors |-> [Drops |-> 13, Errors |-> 14],
      Stats |-> [InputBytes |-> 15, OutputBytes |-> 16],
      Units |-> {<<>>,
                 <<[Name |-> "xe-0/0/1.0", Description |-> "",
                    Stats |-> [InputBytes |-> 37, OutputBytes |-> 38]]>>}]}

PhyInterfaces ==
    UNION {{[Name |-> p.Name, Description |-> p.Description, MacAddress |-> p.MacAddress,
             InputErrors |-> p.InputErrors, OutputErrors |-> p.OutputErrors,
             Stats |-> p.Stats, AdminStatus |-> a, OperStatus |-> o,
             LogicalInterfaces |-> ls] :
                a \in StatusTexts, o \in StatusTexts, ls \in p.Units} : p \in PhyPorts}

InterfaceRpcs == SeqUpTo(PhyInterfaces, MaxPhy)

\* !(phy.AdminStatus == phy.OperStatus): a comparison of the two status texts
ErrorStatusOf(phy) == ~(phy.AdminStatus = phy.OperStatus)

\* s := &interfaces.InterfaceStats{IsPhysical: true, ...}
PhysicalStats(phy) ==
    [IsPhysical |-> TRUE,
     Name |-> phy.Name,
     AdminStatus |-> (phy.AdminStatus = "up"),
     OperStatus |-> (phy.OperStatus = "up"),
     ErrorStatus |-> ErrorStatusOf(phy),
     Description |-> phy.Description,
     Mac |-> phy.MacAddress,
     ReceiveDrops |-> phy.InputErrors.Drops,
     ReceiveErrors |-> phy.InputErrors.Errors,
     ReceiveBytes |-> phy.Stats.InputBytes,
     TransmitDrops |-> phy.OutputErrors.Drops,
     TransmitErrors |-> phy.OutputErrors.Errors,
     TransmitBytes |-> phy.Stats.OutputBytes]

\* sl := &interfaces.InterfaceStats{IsPhysical: false, ...}: the fields it
\* does not set keep Go's zero values
MutLogicalStats(phy, log) ==
    [IsPhysical |-> FALSE,
     Name |-> log.Name,
     AdminStatus |-> FALSE,
     OperStatus |-> FALSE,
     ErrorStatus |-> FALSE,
     Description |-> log.Description,
     Mac |-> "",
     ReceiveDrops |-> 0,
     ReceiveErrors |-> 0,
     ReceiveBytes |-> log.Stats.InputBytes,
     TransmitDrops |-> 0,
     TransmitErrors |-> 0,
     TransmitBytes |-> log.Stats.OutputBytes]
LogicalStats(phy, log) ==
    [IsPhysical |-> FALSE,
     Name |-> log.Name,
     AdminStatus |-> FALSE,
     OperStatus |-> FALSE,
     ErrorStatus |-> FALSE,
     Description |-> log.Description,
     Mac |-> phy.MacAddress,
     ReceiveDrops |-> 0,
     ReceiveErrors |-> 0,
     ReceiveBytes |-> log.Stats.InputBytes,
     TransmitDrops |-> 0,
     TransmitErrors |-> 0,
     TransmitBytes |-> log.Stats.OutputBytes]

\* the inner loop over phy.LogicalInterfaces, appending to stats
RECURSIVE LogicalLoop(_, _, _)
LogicalLoop(phy, logs, stats) ==
    IF logs = <<>> THEN stats
    ELSE LogicalLoop(phy, Tail(logs), Append(stats, LogicalStats(phy, Head(logs))))

\* the outer loop over x.Information.Interfaces, appending to stats
RECURSIVE InterfaceLoop(_, _)
InterfaceLoop(ifs, stats) ==
    IF ifs = <<>> THEN stats
    ELSE InterfaceLoop(Tail(ifs),
            LogicalLoop(Head(ifs), Head(ifs).LogicalInterfaces,
                        Append(stats, PhysicalStats(Head(ifs)))))

InterfaceStatsReply(x) ==
    /\ pc = "wait" /\ op = "InterfaceStats"
    /\ Return(x, InterfaceLoop(x, <<>>))

(***************************************************************************)
(* BgpSessions, OspfAreas, IsisAdjancies, RouteEngineStats.                *)
(***************************************************************************)
BgpPeers ==
    {[Ip |-> "192.0.2.1", State |-> st, Asn |-> 65001, Flaps |-> 1,
      InputMessages |-> 2, OutputMessages |-> 3,
      Rib |-> [AcceptedPrefixes |-> 100, ActivePrefixes |-> 98,
               ReceivedPrefixes |-> 101, RejectedPrefixes |-> 4]] :
        st \in {"Established", "Active", "Idle"}}
BgpRpcs == SeqUpTo(BgpPeers, MaxPeers)

BgpSession(peer) ==
    [Ip |-> peer.Ip,
     Up |-> (peer.State = "Established"),
     Asn |-> peer.Asn,
     Flaps |-> peer.Flaps,
     InputMessages |-> peer.InputMessages,
     OutputMessages |-> peer.OutputMessages,
     AcceptedPrefixes |-> peer.Rib.AcceptedPrefixes,
     ActivePrefixes |-> peer.Rib.ActivePrefixes,
     ReceivedPrefixes |-> peer.Rib.ReceivedPrefixes,
     RejectedPrefixes |-> peer.Rib.RejectedPrefixes]

BgpSessionsReply(x) ==
    /\ pc = "wait" /\ op = "BgpSessions"
    /\ Return(x, [i \in 1..Len(x) |-> BgpSession(x[i])])

OspfAreaEntries ==
    {[Name |-> n, Neighbors |-> [NeighborsUp |-> u]] :
        n \in {"0.0.0.0", "0.0.0.1"}, u \in {0, 2}}
Ospf3Rpcs == SeqUpTo(OspfAreaEntries, MaxAreas)

OspfArea(area) == [Name |-> area.Name, Neighbors |-> area.Neighbors.NeighborsUp]

OspfAreasReply(x) ==
    /\ pc = "wait" /\ op = "OspfAreas"
    /\ Return(x, [i \in 1..Len(x) |-> OspfArea(x[i])])

IsisRpcs == SeqUpTo([AdjacencyState : {"Up", "Down", "Initializing"}], MaxAdj)

\* the loop over x.Information.Adjacencies
RECURSIVE IsisLoop(_, _)
IsisLoop(adjs, n) ==
    IF adjs = <<>> THEN n
    ELSE IsisLoop(Tail(adjs),
            [Up |-> IF Head(adjs).AdjacencyState = "Up" THEN n.Up + 1 ELSE n.Up,
             Total |-> n.Total + 1])

IsisAdjanciesReply(x) ==
    /\ pc = "wait" /\ op = "IsisAdjancies"
    /\ Return(x, IsisLoop(x, [Up |-> 0, Total |-> 0]))

RoutingEngineRpcs ==
    {[Temperature |-> [Value |-> t], MemoryUtilization |-> m,
      CPUTemperature |-> [Value |-> 41], CPUUser |-> 1, CPUBackground |-> 2,
      CPUSystem |-> 3, CPUInterrupt |-> 4, CPUIdle |-> 90, LoadAverageOne |-> 5,
      LoadAAverageFive |-> 6, LoadAverageFifteen |-> 7] :
        t \in {30, 35}, m \in {10, 20}}

RouteEngine(re) ==
    [Temperature |-> re.Temperature.Value,
     MemoryUtilization |-> re.MemoryUtilization,
     CPUTemperature |-> re.CPUTemperature.Value,
     CPUUser |-> re.CPUUser,
     CPUBackground |-> re.CPUBackground,
     CPUSystem |-> re.CPUSystem,
     CPUInterrupt |-> re.CPUInterrupt,
     CPUIdle |-> re.CPUIdle,
     LoadAverageOne |-> re.LoadAverageOne,
     LoadAverageFive |-> re.LoadAAverageFive,
     LoadAverageFifteen |-> re.LoadAverageFifteen]

RouteEngineStatsReply(x) ==
    /\ pc = "wait" /\ op = "RouteEngineStats"
    /\ Return(x, RouteEngine(x))

(***************************************************************************)
(* RoutingTables.                                                          *)
(***************************************************************************)
RouteProtocols ==
    {[Name |-> "direct", Routes |-> 5, ActiveRoutes |-> 5],
     [Name |-> "bgp", Routes |-> 200, ActiveRoutes |-> 150]}

RouteTables ==
    {[Name |-> t.Name, MaxRoutes |-> t.MaxRoutes, ActiveRoutes |-> t.ActiveRoutes,
      TotalRoutes |-> t.TotalRoutes, Protocols |-> ps] :
        t \in {[Name |-> "inet.0", MaxRoutes |-> 0, ActiveRoutes |-> 155, TotalRoutes |-> 205],
               [Name |-> "inet6.0", MaxRoutes |-> 1000, ActiveRoutes |-> 10, TotalRoutes |-> 12]},
        ps \in SeqUpTo(RouteProtocols, MaxProtos)}
RouteRpcs == SeqUpTo(RouteTables, MaxTables)

\* p := &route.ProtocolRouteCount{...}
ProtocolRouteCount(proto) ==
    [Name |-> proto.Name, Routes |-> proto.Routes, ActiveRoutes |-> proto.ActiveRoutes]

\* the inner loop over table.Protocols: t.Protocols = append(t.Protocols, p)
RECURSIVE ProtocolLoop(_, _)
ProtocolLoop(protos, acc) ==
    IF protos = <<>> THEN acc
    ELSE ProtocolLoop(Tail(protos), Append(acc, ProtocolRouteCount(Head(protos))))

\* t := &route.RoutingTable{...} with its protocol list filled
RoutingTable(table) ==
    [Name |-> table.Name,
     MaxRoutes |-> table.MaxRoutes,
     ActiveRoutes |-> table.ActiveRoutes,
     TotalRoutes |-> table.TotalRoutes,
     Protocols |-> ProtocolLoop(table.Protocols, <<>>)]

\* the outer loop over x.Information.Tables: tables = append(tables, t)
RECURSIVE TableLoop(_, _)
TableLoop(ts, tables) ==
    IF ts = <<>> THEN tables
    ELSE TableLoop(Tail(ts), Append(tables, RoutingTable(Head(ts))))

RoutingTablesReply(x) ==
    /\ pc = "wait" /\ op = "RoutingTables"
    /\ Return(x, TableLoop(x, <<>>))

(***************************************************************************)
(* EnvironmentItems.                                                       *)
(***************************************************************************)
EnvNames == {"FPC 0", "PEM 0"}
\* item.Temperature is a pointer: nil when the item has no temperature element
EnvItems ==
    {[Name |-> n, Temperature |-> t] :
        n \in EnvNames, t \in {NilValue, Some([Value |-> 30]), Some([Value |-> 45])}}
EnvironmentRpcs == SeqUpTo(EnvItems, MaxItems)

\* list[item.Name] = float64(item.Temperature.Value), on a map held as a
\* function from its keys
MapPut(list, k, v) == [n \in (DOMAIN list) \cup {k} |-> IF n = k THEN v ELSE list[n]]

\* the first loop's body for one item
MutEnvPut(list, item) ==
    IF ~item.Temperature.isNil /\ item.Name \notin DOMAIN list
    THEN MapPut(list, item.Name, item.Temperature.v.Value)
    ELSE list
EnvPut(list, item) ==
    IF ~item.Temperature.isNil THEN MapPut(list, item.Name, item.Temperature.v.Value)
    ELSE list

\* the first loop over x.Information.Items
RECURSIVE EnvLoop(_, _)
EnvLoop(items, list) ==
    IF items = <<>> THEN list
    ELSE EnvLoop(Tail(items), EnvPut(list, Head(items)))

EmptyMap == [n \in {} |-> 0]

\* the orders in which `for name, value := range list` may visit the keys
RangeOrders(list) ==
    {o \in [1..Cardinality(DOMAIN list) -> DOMAIN list] :
        \A i, j \in 1..Cardinality(DOMAIN list) : i # j => o[i] # o[j]}

\* Go leaves the iteration order of a map unspecified: any order may come out
EnvironmentItemsReply(x) ==
    /\ pc = "wait" /\ op = "EnvironmentItems"
    /\ LET list == EnvLoop(x, EmptyMap)
       IN  \E o \in RangeOrders(list) :
              Return(x, [i \in 1..Len(o) |-> [Name |-> o[i], Temperature |-> list[o[i]]]])

(***************************************************************************)
(* InterfaceDiagnostics.                                                   *)
(***************************************************************************)
\* "- Inf" is what the device prints for no light; "" is an absent element.
\* An entry without optics carries the marker and no reading.
DiagEntry(na, mv, lo, ra, lr) ==
    [Name |-> "xe-0/0/1",
     Diagnostics |->
        [NA |-> na, LaserBiasCurrent |-> 6, LaserOutputPower |-> 1,
         ModuleTemperature |-> [Value |-> 40], LaserOutputPowerDbm |-> lo,
         ModuleVoltage |-> mv, RxSignalAvgOpticalPower |-> 7,
         RxSignalAvgOpticalPowerDbm |-> ra, LaserRxOpticalPower |-> 9,
         LaserRxOpticalPowerDbm |-> lr]]

\* the three dBm texts of an entry: laser output, RX average, laser RX
DbmReadings ==
    {<<"2", "-4", "-16">>, <<"- Inf", "- Inf", "">>, <<"-2.50", "-Inf", "1e1">>,
     <<".5", "0x1p-2", "NaN">>, <<"1_0", "1e400", "-1e-400">>}

DiagEntries ==
    {DiagEntry("", mv, t[1], t[2], t[3]) : mv \in {-1, 0, 3}, t \in DbmReadings}
    \cup {DiagEntry("N/A", mv, "", "", "") : mv \in {0, 3}}
InterfaceDiagnosticsRpcs == SeqUpTo(DiagEntries, MaxDiag)

\* f, err := strconv.ParseFloat(text, 64); if err == nil { field = f }
DbmOrZero(text) ==
    With(ParseFloat(text), LAMBDA r : IF r.err = Nil THEN r.f ELSE Zero(FALSE))

\* the record d built for one entry that is not skipped
MutDiagRecord(diag) ==
    [Name |-> diag.Name,
     LaserBiasCurrent |-> diag.Diagnostics.LaserBiasCurrent,
     LaserOutputPower |-> diag.Diagnostics.LaserOutputPower,
     ModuleTemperature |-> diag.Diagnostics.ModuleTemperature.Value,
     LaserOutputPowerDbm |-> DbmOrZero(diag.Diagnostics.LaserOutputPowerDbm),
     ModuleVoltage |-> diag.Diagnostics.ModuleVoltage,
     RxSignalAvgOpticalPower |-> diag.Diagnostics.RxSignalAvgOpticalPower,
     RxSignalAvgOpticalPowerDbm |-> DbmOrZero(diag.Diagnostics.RxSignalAvgOpticalPowerDbm),
     LaserRxOpticalPower |-> diag.Diagnostics.LaserRxOpticalPower,
     LaserRxOpticalPowerDbm |-> DbmOrZero(diag.Diagnostics.LaserRxOpticalPowerDbm)]
DiagRecord(diag) ==
    LET d == diag.Diagnostics
        base == [Name |-> diag.Name,
                 LaserBiasCurrent |-> d.LaserBiasCurrent,
                 LaserOutputPower |-> d.LaserOutputPower,
                 ModuleTemperature |-> d.ModuleTemperature.Value,
                 LaserOutputPowerDbm |-> DbmOrZero(d.LaserOutputPowerDbm),
                 ModuleVoltage |-> 0,
                 RxSignalAvgOpticalPower |-> 0,
                 RxSignalAvgOpticalPowerDbm |-> Zero(FALSE),
                 LaserRxOpticalPower |-> 0,
                 LaserRxOpticalPowerDbm |-> Zero(FALSE)]
    IN  IF d.ModuleVoltage > 0
        THEN [base EXCEPT !.ModuleVoltage = d.ModuleVoltage,
                          !.RxSignalAvgOpticalPower = d.RxSignalAvgOpticalPower,
                          !.RxSignalAvgOpticalPowerDbm = DbmOrZero(d.RxSignalAvgOpticalPowerDbm)]
        ELSE [base EXCEPT !.LaserRxOpticalPower = d.LaserRxOpticalPower,
                          !.LaserRxOpticalPowerDbm = DbmOrZero(d.LaserRxOpticalPowerDbm)]

\* the loop over x.Information.Diagnostics, with its continue on "N/A"
RECURSIVE DiagLoop(_, _)
DiagLoop(ds, diagnostics) ==
    IF ds = <<>> THEN diagnostics
    ELSE IF Head(ds).Diagnostics.NA = "N/A" THEN DiagLoop(Tail(ds), diagnostics)
    ELSE DiagLoop(Tail(ds), Append(diagnostics, DiagRecord(Head(ds))))

InterfaceDiagnosticsReply(x) ==
    /\ pc = "wait" /\ op = "InterfaceDiagnostics"
    /\ Return(x, DiagLoop(x, <<>>))

(***************************************************************************)
(* The RpcClient specifications.                                           *)
(***************************************************************************)
CollectIdle ==
    /\ backing = <<>>
    /\ cstate = <<>>
    /\ out = <<>>

\* the process after NewClient: a client that no call has used yet, or the
\* panic of the constructor, after which nothing runs
Constructed(filterText) ==
    With(NewClient(filterText), LAMBDA n :
        /\ n.outcome \in {"client", "panic"}
        /\ alarmFilter = n.alarmFilter
        /\ IF n.outcome = "panic"
           THEN /\ pc = "panic"
                /\ op = Nil
                /\ cmdIdx = 1
                /\ sent = <<>>
                /\ inflight = 0
                /\ decoded = <<>>
                /\ red = 0
                /\ yellow = 0
                /\ result = NilValue
                /\ err = Nil
           ELSE CallInit)

Init ==
    /\ Constructed("")
    /\ CollectIdle

InitAlarm ==
    /\ \E f \in FilterTexts : Constructed(f)
    /\ CollectIdle

Next ==
    \/ \E o \in Ops : Enter(o)
    \/ RunCommand
    \/ TransportError
    \/ DecodeError
    \/ Finish
    \/ Awaits("AlarmCounter") /\ \E a \in AlarmRpcs : AlarmCounterReply(a)
    \/ Awaits("InterfaceStats") /\ \E x \in InterfaceRpcs : InterfaceStatsReply(x)
    \/ Awaits("BgpSessions") /\ \E x \in BgpRpcs : BgpSessionsReply(x)
    \/ Awaits("OspfAreas") /\ \E x \in Ospf3Rpcs : OspfAreasReply(x)
    \/ Awaits("IsisAdjancies") /\ \E x \in IsisRpcs : IsisAdjanciesReply(x)
    \/ Awaits("RoutingTables") /\ \E x \in RouteRpcs : RoutingTablesReply(x)
    \/ Awaits("RouteEngineStats") /\ \E x \in RoutingEngineRpcs : RouteEngineStatsReply(x)
    \/ Awaits("EnvironmentItems") /\ \E x \in EnvironmentRpcs : EnvironmentItemsReply(x)
    \/ Awaits("InterfaceDiagnostics") /\ \E x \in InterfaceDiagnosticsRpcs : InterfaceDiagnosticsReply(x)

Spec == Init /\ [][Next]_vars

NextAlarm ==
    \/ Enter("AlarmCounter")
    \/ RunCommand
    \/ TransportError
    \/ DecodeError
    \/ Finish
    \/ Awaits("AlarmCounter") /\ \E a \in AlarmRpcs : AlarmCounterReply(a)

SpecAlarm == InitAlarm /\ [][NextAlarm]_vars

(***************************************************************************)
(* InterfaceCollector.  Collect invocations run as goroutines of the       *)
(* scrape scheduler; all were handed the same labelValues slice: the first *)
(* LabelValuesLen elements of the array `backing`.  The array holds string *)
(* headers of two words each, a data pointer and a length; the goroutines  *)
(* store and load them without synchronisation, so a step of the stores is *)
(* one word, in any order.                                                 *)
(***************************************************************************)
Invocations == {"c1", "c2"}

prefix == "junos_interface_"

Target == "router1"

\* a string header: the data pointer, named by the text it points at, and
\* the length.  A header put together from the words of two strings has a
\* length that is not that of its text.
Str(text) == [ptr |-> text, len |-> Len(text)]
Words == {"ptr", "len"}

\* the caller's slice: its length is the one label value it bound (the
\* target); its capacity is the length of the array behind it
LabelValuesLen == Len(<<Target>>)
LabelValues == SubSeq(backing, 1, LabelValuesLen)

\* the elements of the array that append(labelValues, name, description,
\* mac) writes when the array has room for them
AppendedSlots == (LabelValuesLen + 1)..(LabelValuesLen + 3)

\* the arrays a caller may hold behind the slice: no spare capacity, or
\* room for three more strings
Backings == {<<Str(Target)>>, <<Str(Target), Str(""), Str(""), Str("")>>}

\* the records a datasource may return
\* (what RpcClient.InterfaceStats makes of one port with logical interfaces)
PoolPhy ==
    CHOOSE q \in PhyInterfaces :
        /\ q.Name = "ge-0/0/0" /\ q.LogicalInterfaces # <<>>
        /\ q.AdminStatus = "up" /\ q.OperStatus = "down"
StatsPool == {InterfaceLoop(<<PoolPhy>>, <<>>)[i] : i \in {1, 2}}
StatsLists == SeqUpTo(StatsPool, MaxStats)
\* the lists of the invocations that run concurrently
RacingLists == SeqUpTo(StatsPool, MaxRacing)

\* the samples collectForInterface sends for record s, in order: the
\* descriptor and the value of each
BoolGauge(b) == IF b THEN 1 ELSE 0

MutSamplesFor(s) ==
    <<[desc |-> prefix \o "receive_bytes", value |-> s.ReceiveBytes],
      [desc |-> prefix \o "transmit_bytes", value |-> s.TransmitBytes],
      [desc |-> prefix \o "admin_up", value |-> BoolGauge(s.AdminStatus)],
      [desc |-> prefix \o "up", value |-> BoolGauge(s.OperStatus)],
      [desc |-> prefix \o "error_status", value |-> BoolGauge(s.ErrorStatus)],
      [desc |-> prefix \o "transmit_errors", value |-> s.TransmitErrors],
      [desc |-> prefix \o "transmit_drops", value |-> s.TransmitDrops],
      [desc |-> prefix \o "receive_errors", value |-> s.ReceiveErrors],
      [desc |-> prefix \o "receive_drops", value |-> s.ReceiveDrops]>>
SamplesFor(s) ==
    <<[desc |-> prefix \o "receive_bytes", value |-> s.ReceiveBytes],
      [desc |-> prefix \o "transmit_bytes", value |-> s.TransmitBytes]>>
    \o (IF s.IsPhysical
        THEN <<[desc |-> prefix \o "admin_up", value |-> BoolGauge(s.AdminStatus)],
               [desc |-> prefix \o "up", value |-> BoolGauge(s.OperStatus)],
               [desc |-> prefix \o "error_status", value |-> BoolGauge(s.ErrorStatus)],
               [desc |-> prefix \o "transmit_errors", value |-> s.TransmitErrors],
               [desc |-> prefix \o "transmit_drops", value |-> s.TransmitDrops],
               [desc |-> prefix \o "receive_errors", value |-> s.ReceiveErrors],
               [desc |-> prefix \o "receive_drops", value |-> s.ReceiveDrops]>>
        ELSE <<>>)

\* todo: the words of the append in progress that are not stored yet;
\* metric: the metric built last, the one in the channel
CollectStart ==
    [pc |-> "start", calls |-> 0, stats |-> <<>>, err |-> Nil, i |-> 1, k |-> 1,
     l |-> [shared |-> FALSE, vals |-> <<>>], todo |-> {}, metric |-> NilValue,
     ret |-> Nil]

InitCollect ==
    /\ Constructed("")
    /\ backing \in Backings
    /\ cstate = [c \in Invocations |-> CollectStart]
    /\ out = [c \in Invocations |-> <<>>]

\* Collect: stats, err := datasource.InterfaceStats(); if err != nil { return err }
MutCollectCall(c, stats, e) ==
    /\ cstate[c].pc = "start"
    /\ cstate' = [cstate EXCEPT ![c] =
            [@ EXCEPT !.calls = @ + 1, !.stats = stats, !.err = e, !.pc = "loop"]]
    /\ UNCHANGED <<backing, out>>
    /\ UNCHANGED rpcVars
CollectCall(c, stats, e) ==
    /\ cstate[c].pc = "start"
    /\ cstate' = [cstate EXCEPT ![c] =
            IF e # Nil
            THEN [@ EXCEPT !.calls = @ + 1, !.err = e, !.ret = e, !.pc = "returned"]
            ELSE [@ EXCEPT !.calls = @ + 1, !.stats = stats, !.err = e, !.pc = "loop"]]
    /\ UNCHANGED <<backing, out>>
    /\ UNCHANGED rpcVars

\* the datasource answers with an error and no records, or with records
CollectFails(c) == \E e \in {"TransportError", "DecodeError"} : CollectCall(c, <<>>, e)
CollectGets(c) == \E stats \in StatsLists : CollectCall(c, stats, Nil)
CollectGetsRacing(c) == \E stats \in RacingLists : CollectCall(c, stats, Nil)

\* the three strings collectForInterface appends for record s
OwnLabels(s) == <<Str(s.Name), Str(s.Description), Str(s.Mac)>>

\* collectForInterface, l := append(labelValues, s.Name, s.Description, s.Mac):
\* with room behind the slice l shares the caller's array and the strings
\* are still to be copied into it; without, they go into a fresh array that
\* no other goroutine sees.
AppendLabels(c) ==
    /\ cstate[c].pc = "loop"
    /\ cstate[c].i <= Len(cstate[c].stats)
    /\ LET s == cstate[c].stats[cstate[c].i]
       IN  IF LabelValuesLen + Len(OwnLabels(s)) <= Len(backing)
           THEN cstate' = [cstate EXCEPT ![c] =
                        [@ EXCEPT !.l = [shared |-> TRUE, vals |-> <<>>],
                                  !.todo = AppendedSlots \X Words,
                                  !.k = 1, !.pc = "store"]]
           ELSE cstate' = [cstate EXCEPT ![c] =
                        [@ EXCEPT !.l = [shared |-> FALSE, vals |-> LabelValues \o OwnLabels(s)],
                                  !.k = 1, !.pc = "emit"]]
    /\ UNCHANGED <<backing, out>>
    /\ UNCHANGED rpcVars

\* the copy of append into the shared array, one word of one header: the
\* order of the words is the runtime's
StoreWord(c, slot, w) ==
    /\ cstate[c].pc = "store"
    /\ <<slot, w>> \in cstate[c].todo
    /\ LET s == cstate[c].stats[cstate[c].i]
           own == OwnLabels(s)[slot - LabelValuesLen]
           rest == cstate[c].todo \ {<<slot, w>>}
       IN  /\ backing' = [backing EXCEPT ![slot] =
                    IF w = "ptr" THEN [@ EXCEPT !.ptr = own.ptr]
                    ELSE [@ EXCEPT !.len = own.len]]
           /\ cstate' = [cstate EXCEPT ![c] =
                    [@ EXCEPT !.todo = rest,
                              !.pc = IF rest = {} THEN "emit" ELSE "store"]]
    /\ UNCHANGED out
    /\ UNCHANGED rpcVars

\* what l holds when it is read
LabelsRead(c) ==
    IF cstate[c].l.shared THEN SubSeq(backing, 1, LabelValuesLen + 3)
    ELSE cstate[c].l.vals

\* ch <- prometheus.MustNewConstMetric(desc, GaugeValue, value, l...): the
\* metric takes a copy of the headers l holds at that moment.  The loads
\* are taken as one step: with the stores of the other goroutine taken word
\* by word in any order, every mix of words that separate loads can see is
\* seen by loads in one step.
Emit(c) ==
    /\ cstate[c].pc = "emit"
    /\ LET s == cstate[c].stats[cstate[c].i]
           k == cstate[c].k
           m == SamplesFor(s)[k]
           next == IF k < Len(SamplesFor(s)) THEN [cstate[c] EXCEPT !.k = k + 1]
                   ELSE [cstate[c] EXCEPT !.i = @ + 1, !.pc = "loop"]
       IN  /\ out' = [out EXCEPT ![c] = Append(@, [desc |-> m.desc, value |-> m.value])]
           /\ cstate' = [cstate EXCEPT ![c] =
                    [next EXCEPT !.metric =
                        Some([desc |-> m.desc, value |-> m.value, labels |-> LabelsRead(c)])]]
    /\ UNCHANGED backing
    /\ UNCHANGED rpcVars

\* the loop over stats is over: return nil
CollectReturn(c) ==
    /\ cstate[c].pc = "loop"
    /\ cstate[c].i > Len(cstate[c].stats)
    /\ cstate' = [cstate EXCEPT ![c] = [@ EXCEPT !.ret = Nil, !.pc = "returned"]]
    /\ UNCHANGED <<backing, out>>
    /\ UNCHANGED rpcVars

NextCollect ==
    \E c \in Invocations :
        \/ CollectFails(c)
        \/ CollectGetsRacing(c)
        \/ AppendLabels(c)
        \/ \E slot \in AppendedSlots, w \in Words : StoreWord(c, slot, w)
        \/ Emit(c)
        \/ CollectReturn(c)

SpecCollect == InitCollect /\ [][NextCollect]_vars

\* a scheduler that runs the invocations one after the other: an invocation
\* starts only when no other one is between its call and its return
NoneRunning == \A d \in Invocations : cstate[d].pc \in {"start", "returned"}

NextCollectSeq ==
    \E c \in Invocations :
        \/ NoneRunning /\ CollectFails(c)
        \/ NoneRunning /\ CollectGets(c)
        \/ AppendLabels(c)
        \/ \E slot \in AppendedSlots, w \in Words : StoreWord(c, slot, w)
        \/ Emit(c)
        \/ CollectReturn(c)

SpecCollectSeq == InitCollect /\ [][NextCollectSeq]_vars

(***************************************************************************)
(* Properties of RpcClient.                                                *)
(***************************************************************************)
Returned(o) == pc = "done" /\ op = o /\ err = Nil

\* C1: every physical record of InterfaceStats has ErrorStatus true iff its
\* AdminStatus and OperStatus booleans differ, whatever the two status texts.
C1_ErrorStatusIffBooleansDiffer ==
    Returned("InterfaceStats") =>
        \A i \in 1..Len(result.v) :
            result.v[i].IsPhysical =>
                (result.v[i].ErrorStatus <=> (result.v[i].AdminStatus # result.v[i].OperStatus))

\* the alarms of both replies, each named by its reply and its place in it
AlarmPlaces == {<<r, i>> \in (1..Len(decoded)) \X (1..MaxAlarms + 1) : i <= Len(decoded[r])}
\* the texts of the replies each filter pattern matches somewhere
MatchedTexts(pattern) ==
    CASE pattern = "fan|psu" -> {"fan failure", "psu warn", "fan"}
      [] pattern = "^psu" -> {"psu warn"}
      [] pattern = "f.n" -> {"fan failure", "fan"}
      [] pattern = "failure$" -> {"fan failure"}
      [] pattern = "(?i)FAN" -> {"fan failure", "fan"}
      [] OTHER -> {}
\* an alarm is filtered exactly when a pattern is configured and matches the
\* alarm's description or type
Filtered(d) ==
    /\ ~alarmFilter.isNil
    /\ d.Description \in MatchedTexts(alarmFilter.pattern)
          \/ d.Type \in MatchedTexts(alarmFilter.pattern)
Counted(class) ==
    Cardinality({p \in AlarmPlaces :
        decoded[p[1]][p[2]].Class = class /\ ~Filtered(decoded[p[1]][p[2]])})

\* C3: when both alarm commands succeed, red is the number of unfiltered
\* "Major" alarms of the two replies and yellow that of the unfiltered "Minor"
\* ones; other classes count nowhere; without a filter nothing is filtered.
C3_AlarmCounts ==
    Returned("AlarmCounter") =>
        /\ Len(decoded) = 2
        /\ result.v.RedCount = Counted("Major")
        /\ result.v.YellowCount = Counted("Minor")

C3_Witness ==
    /\ Returned("AlarmCounter")
    /\ alarmFilter.pattern = "^psu"
    /\ \E i \in 1..Len(decoded[1]) :
          decoded[1][i].Class = "Major" /\ decoded[1][i].Description = "psu warn"
    /\ \E i \in 1..Len(decoded[2]) : decoded[2][i].Class = "Critical"
    /\ \E i \in 1..Len(decoded[2]) :
          decoded[2][i].Class = "Major" /\ decoded[2][i].Description = "fan failure"
    /\ result.v = [RedCount |-> 1, YellowCount |-> 0]

\* C5: a call that ends with an error returns no value, also when earlier
\* replies of the call were tallied, and a call without error returns a
\* value; every command of the call was sent once (nothing is retried).
C5_ErrorAbortsCall ==
    pc = "done" =>
        /\ err # Nil <=> result = NilValue
        /\ err # Nil => Len(sent) = Len(decoded) + 1
        /\ \A i, j \in 1..Len(sent) : i # j => sent[i] # sent[j]

C5_Witness ==
    /\ pc = "done" /\ op = "AlarmCounter"
    /\ err = "DecodeError"
    /\ Len(decoded) = 1 /\ Len(sent) = 2
    /\ red + yellow > 0
    /\ result = NilValue

\* C6: EnvironmentItems returns one record per name that has an item with a
\* temperature, carrying the temperature of the last such item in the reply.
HasTemp(x, i) == ~x[i].Temperature.isNil
LastWithTemp(x, name) ==
    CHOOSE i \in 1..Len(x) :
        /\ x[i].Name = name /\ HasTemp(x, i)
        /\ \A j \in 1..Len(x) : (x[j].Name = name /\ HasTemp(x, j)) => j <= i
C6_EnvironmentLastWins ==
    Returned("EnvironmentItems") =>
        LET x == decoded[1]
            r == result.v
        IN  /\ \A i, j \in 1..Len(r) : i # j => r[i].Name # r[j].Name
            /\ {r[i].Name : i \in 1..Len(r)} = {x[i].Name : i \in {j \in 1..Len(x) : HasTemp(x, j)}}
            /\ \A i \in 1..Len(r) :
                  r[i].Temperature = x[LastWithTemp(x, r[i].Name)].Temperature.v.Value

C6_Witness ==
    /\ Returned("EnvironmentItems")
    /\ Len(decoded[1]) = 3
    /\ decoded[1][1] = [Name |-> "FPC 0", Temperature |-> Some([Value |-> 30])]
    /\ decoded[1][2] = [Name |-> "FPC 0", Temperature |-> Some([Value |-> 45])]
    /\ decoded[1][3] = [Name |-> "FPC 0", Temperature |-> NilValue]
    /\ result.v = <<[Name |-> "FPC 0", Temperature |-> 45]>>

\* the entries of an optical-diagnostics reply that are not marked "N/A"
Present(x) == SelectSeq(x, LAMBDA e : e.Diagnostics.NA # "N/A")
\* the float64 each dBm text of the replies stands for; a text that is no
\* number, or one beyond float64's largest value, leaves the field at +0
DbmValue(text) ==
    CASE text = "2" -> Finite(FALSE, "1", 1)
      [] text = "-4" -> Finite(TRUE, "1", 2)
      [] text = "-16" -> Finite(TRUE, "1", 4)
      [] text = "-2.50" -> Finite(TRUE, "5", -1)
      [] text = "1e1" -> Finite(FALSE, "5", 1)
      [] text = ".5" -> Finite(FALSE, "1", -1)
      [] text = "0x1p-2" -> Finite(FALSE, "1", -2)
      [] text = "1_0" -> Finite(FALSE, "5", 1)
      [] text = "-Inf" -> Inf(TRUE)
      [] text = "NaN" -> NaN
      [] text = "-1e-400" -> Zero(TRUE)
      [] OTHER -> Zero(FALSE)

\* C7: InterfaceDiagnostics returns one record per entry not marked "N/A";
\* with module voltage > 0 it carries the voltage and the RX average power
\* (and its dBm) and leaves the laser RX power and its dBm at zero, otherwise
\* the converse; a dBm text that is no number leaves its field at zero.
C7_DiagnosticsOneBranch ==
    Returned("InterfaceDiagnostics") =>
        LET es == Present(decoded[1])
            r == result.v
        IN  /\ Len(r) = Len(es)
            /\ \A i \in 1..Len(r) :
                  LET d == es[i].Diagnostics
                  IN  /\ r[i].Name = es[i].Name
                      /\ r[i].LaserOutputPowerDbm = DbmValue(d.LaserOutputPowerDbm)
                      /\ IF d.ModuleVoltage > 0
                         THEN /\ r[i].ModuleVoltage = d.ModuleVoltage
                              /\ r[i].RxSignalAvgOpticalPower = d.RxSignalAvgOpticalPower
                              /\ r[i].RxSignalAvgOpticalPowerDbm = DbmValue(d.RxSignalAvgOpticalPowerDbm)
                              /\ r[i].LaserRxOpticalPower = 0
                              /\ r[i].LaserRxOpticalPowerDbm = Zero(FALSE)
                         ELSE /\ r[i].ModuleVoltage = 0
                              /\ r[i].RxSignalAvgOpticalPower = 0
                              /\ r[i].RxSignalAvgOpticalPowerDbm = Zero(FALSE)
                              /\ r[i].LaserRxOpticalPower = d.LaserRxOpticalPower
                              /\ r[i].LaserRxOpticalPowerDbm = DbmValue(d.LaserRxOpticalPowerDbm)

C7_Witness ==
    /\ Returned("InterfaceDiagnostics")
    /\ Len(decoded[1]) = 2
    /\ decoded[1][1].Diagnostics.NA = "N/A"
    /\ decoded[1][2].Diagnostics.NA = ""
    /\ decoded[1][2].Diagnostics.ModuleVoltage = 3
    /\ decoded[1][2].Diagnostics.LaserOutputPowerDbm = "-2.50"
    /\ decoded[1][2].Diagnostics.RxSignalAvgOpticalPowerDbm = "-Inf"
    /\ decoded[1][2].Diagnostics.LaserRxOpticalPowerDbm = "1e1"
    /\ Len(result.v) = 1
    /\ result.v[1].RxSignalAvgOpticalPower = 7
    /\ result.v[1].LaserOutputPowerDbm = Finite(TRUE, "5", -1)
    /\ result.v[1].RxSignalAvgOpticalPowerDbm = Inf(TRUE)
    /\ result.v[1].LaserRxOpticalPowerDbm = Zero(FALSE)

\* the place in the output of the i-th physical interface of reply x: it
\* follows the earlier physical interfaces and all their logical interfaces
RECURSIVE PlaceOf(_, _)
PlaceOf(x, i) ==
    IF i = 1 THEN 1 ELSE PlaceOf(x, i - 1) + 1 + Len(x[i - 1].LogicalInterfaces)

\* C8: RoutingTables returns one record per table in reply order, each with
\* one child per protocol entry in reply order; InterfaceStats returns each
\* physical record in reply order, followed at once by its own logical
\* records in reply order, each carrying its parent's hardware address.
C8_ReplyOrder ==
    /\ Returned("RoutingTables") =>
          LET x == decoded[1]
              r == result.v
          IN  /\ Len(r) = Len(x)
              /\ \A i \in 1..Len(x) :
                    /\ r[i].Name = x[i].Name
                    /\ r[i].TotalRoutes = x[i].TotalRoutes
                    /\ Len(r[i].Protocols) = Len(x[i].Protocols)
                    /\ \A j \in 1..Len(x[i].Protocols) :
                          /\ r[i].Protocols[j].Name = x[i].Protocols[j].Name
                          /\ r[i].Protocols[j].Routes = x[i].Protocols[j].Routes
                          /\ r[i].Protocols[j].ActiveRoutes = x[i].Protocols[j].ActiveRoutes
    /\ Returned("InterfaceStats") =>
          LET x == decoded[1]
              r == result.v
          IN  /\ Len(r) = PlaceOf(x, Len(x) + 1) - 1
              /\ \A i \in 1..Len(x) :
                    /\ r[PlaceOf(x, i)].IsPhysical
                    /\ r[PlaceOf(x, i)].Name = x[i].Name
                    /\ r[PlaceOf(x, i)].Mac = x[i].MacAddress
                    /\ \A j \in 1..Len(x[i].LogicalInterfaces) :
                          /\ ~r[PlaceOf(x, i) + j].IsPhysical
                          /\ r[PlaceOf(x, i) + j].Name = x[i].LogicalInterfaces[j].Name
                          /\ r[PlaceOf(x, i) + j].Mac = x[i].MacAddress

C8_Witness ==
    /\ Returned("InterfaceStats")
    /\ Len(decoded[1]) = 2
    /\ decoded[1][1].Name = "ge-0/0/0" /\ Len(decoded[1][1].LogicalInterfaces) = 2
    /\ decoded[1][2].Name = "xe-0/0/1" /\ Len(decoded[1][2].LogicalInterfaces) = 1
    /\ [i \in 1..Len(result.v) |-> result.v[i].Name]
          = <<"ge-0/0/0", "ge-0/0/0.0", "ge-0/0/0.1", "xe-0/0/1", "xe-0/0/1.0">>
    /\ result.v[3].Mac = "00:00:5e:00:53:01"
    /\ result.v[5].Mac = "00:00:5e:00:53:02"

\* the command text of each domain with one command, as sent on the channel
WireCommand(o) ==
    CASE o = "InterfaceStats" -> "show interfaces statistics detail | display xml"
      [] o = "BgpSessions" -> "show bgp summary | display xml"
      [] o = "OspfAreas" -> "show ospf3 overview | display xml"
      [] o = "IsisAdjancies" -> "show isis adjacency | display xml"
      [] o = "RoutingTables" -> "show route summary | display xml"
      [] o = "RouteEngineStats" -> "show chassis routing-engine | display xml"
      [] o = "EnvironmentItems" -> "show chassis environment | display xml"
      [] o = "InterfaceDiagnostics" -> "show interfaces diagnostics optics | display xml"
      [] OTHER -> ""

\* C10: an AlarmCounter call sends at most two commands, the system alarms
\* first and the chassis alarms second, the second only after the first reply
\* was decoded; a call never has two commands in flight; every other
\* operation sends exactly its one command.
C10_CommandsInOrder ==
    /\ inflight \in {0, 1}
    /\ inflight = 1 <=> pc = "wait"
    /\ op = "AlarmCounter" =>
          /\ Len(sent) <= 2
          /\ Len(sent) >= 1 => sent[1] = "show system alarms | display xml"
          /\ Len(sent) = 2 =>
                /\ sent[2] = "show chassis alarms | display xml"
                /\ Len(decoded) >= 1
          /\ (pc = "done" /\ decoded = <<>>) => Len(sent) = 1
          /\ (pc = "done" /\ err = Nil) => Len(sent) = 2
    /\ (op \in Ops \ {"AlarmCounter"} /\ pc \in {"wait", "done"}) => sent = <<WireCommand(op)>>

C10_Witness ==
    /\ pc = "wait" /\ op = "AlarmCounter"
    /\ Len(sent) = 2 /\ Len(decoded) = 1 /\ inflight = 1

(***************************************************************************)
(* Properties of InterfaceCollector.                                       *)
(***************************************************************************)
ByteDescs == {"junos_interface_receive_bytes", "junos_interface_transmit_bytes"}
StatusDescs ==
    {"junos_interface_admin_up", "junos_interface_up", "junos_interface_error_status",
     "junos_interface_transmit_errors", "junos_interface_transmit_drops",
     "junos_interface_receive_errors", "junos_interface_receive_drops"}

\* the descriptors a record is to be sampled under
DescsOf(s) == IF s.IsPhysical THEN ByteDescs \cup StatusDescs ELSE ByteDescs

\* the number of samples due before those of the i-th record of stats
RECURSIVE DueBefore(_, _)
DueBefore(stats, i) ==
    IF i = 1 THEN 0 ELSE DueBefore(stats, i - 1) + Cardinality(DescsOf(stats[i - 1]))

\* the samples invocation c has sent so far for the i-th record of its list
SentFor(c, i) ==
    LET stats == cstate[c].stats
    IN  {j \in 1..Len(out[c]) : DueBefore(stats, i) < j /\ j <= DueBefore(stats, i + 1)}

ReturnedNil(c) == cstate[c].pc = "returned" /\ cstate[c].ret = Nil

\* C2: Collect sends for a logical record the two byte-counter samples and
\* never a status, error or drop sample, and for a physical record all nine
\* samples, each once.
C2_SamplesPerRecord ==
    \A c \in Invocations :
        LET stats == cstate[c].stats
        IN  /\ Len(out[c]) <= DueBefore(stats, Len(stats) + 1)
            /\ \A i \in 1..Len(stats) :
                  /\ \A j \in SentFor(c, i) : out[c][j].desc \in DescsOf(stats[i])
                  /\ \A j, h \in SentFor(c, i) : j # h => out[c][j].desc # out[c][h].desc
                  /\ ReturnedNil(c) => {out[c][j].desc : j \in SentFor(c, i)} = DescsOf(stats[i])

C2_Witness ==
    \E c \in Invocations :
        /\ ReturnedNil(c)
        /\ Len(cstate[c].stats) = 2
        /\ ~cstate[c].stats[1].IsPhysical
        /\ cstate[c].stats[2].IsPhysical
        /\ Len(out[c]) = 11

\* C4: a Collect whose datasource call failed returns that error and has sent
\* no sample; one whose call succeeded returns nil with samples sent for
\* every record; either has called the datasource once.
C4_ErrorMeansNoSample ==
    \A c \in Invocations :
        /\ cstate[c].pc # "start" => cstate[c].calls = 1
        /\ cstate[c].err # Nil => (cstate[c].pc = "returned" /\ out[c] = <<>>)
        /\ cstate[c].pc = "returned" =>
              /\ cstate[c].ret = cstate[c].err
              /\ cstate[c].err = Nil =>
                    \A i \in 1..Len(cstate[c].stats) : SentFor(c, i) # {}

C4_Witness ==
    \E c, d \in Invocations :
        /\ cstate[c].pc = "returned" /\ cstate[c].ret = "TransportError" /\ out[c] = <<>>
        /\ ReturnedNil(d) /\ Len(cstate[d].stats) = 2 /\ Len(out[d]) >= 4

\* the record a sample of invocation c belongs to, by its place in out[c]
RecordOf(c, j) ==
    CHOOSE i \in 1..Len(cstate[c].stats) : j \in SentFor(c, i)

\* C9: every sample carries the caller's prefix followed by the name, the
\* description and the hardware address of its own record, whatever the
\* interleaving of the invocations and the capacity of the prefix slice; the
\* caller's prefix stays as it was.
C9_OwnLabels ==
    /\ LabelValues = <<Str(Target)>>
    /\ \A c \in Invocations :
          ~cstate[c].metric.isNil =>
              LET s == cstate[c].stats[RecordOf(c, Len(out[c]))]
              IN  cstate[c].metric.v.labels = <<Str(Target)>> \o OwnLabels(s)

====
